---- MODULE Spec2Model ----
(***************************************************************************)
(* Sending and synchronization engine of the cold-email platform: campaign *)
(* passes, warmup passes, their deferred sends (setTimeout callbacks),     *)
(* manual replies, the midnight reset of the per-account counters, the     *)
(* inbox sync of each account and the rendering of templates.              *)
(*                                                                         *)
(* The database holds the persisted documents (accounts, leads, the        *)
(* campaign, warmup records).  A pass works on documents it loaded; each   *)
(* deferred send keeps the documents of the pass that created it.          *)
(***************************************************************************)
EXTENDS Integers, Sequences, FiniteSets, TLC

(* ------------------------------ bounds --------------------------------- *)
NumAccounts == 3
NumLeads == 3
MaxLimit == 2
MaxPasses == 2
MaxEnginePasses == 1
MaxWarmupPasses == 1
MaxWarmupTarget == 5
MaxWarmupBurst == 2
MaxReplies == 1
MaxResets == 1
MaxLeadEvents == 1
MaxStatusChanges == 1
MaxMail == 5
MaxSyncs == 3
MaxArrivals == 1
MaxTextLen == 2

(* ------------------------- program constants --------------------------- *)
\* campaignSchema.settings.throttling.delayBetweenEmails, schema minimum (seconds)
DelayBetweenEmails == 60

Accounts == 1..NumAccounts
Leads == 1..NumLeads
Users == {1, 2}

LeadStatuses == {"new", "contacted", "replied", "bounced", "unsubscribed"}
CampaignStatuses == {"draft", "active", "paused", "completed", "stopped"}

VARIABLES
    userId,          \* EmailAccount.userId
    isActive,        \* EmailAccount.isActive
    dailyLimit,      \* EmailAccount.dailyLimit
    emailsSentToday, \* EmailAccount.emailsSentToday (persisted)
    lastResetDate,   \* EmailAccount.lastResetDate, as a day number
    leadStatus,      \* Lead.status (persisted)
    lastContactedAt, \* Lead.lastContactedAt, as a day number (-1: unset)
    campaign,        \* the persisted Campaign document
    passes,          \* campaign passes so far: the documents each pass loaded
    timers,          \* deferred campaign sends (setTimeout callbacks not finished)
    warmupPasses,    \* warmup passes so far
    warmupTimers,    \* deferred warmup sends
    warmupEmails,    \* WarmupEmail collection
    today,           \* day number, advanced by the midnight cron
    sendCall,        \* the sendEmail call of the latest step of the sending engine,
                     \* NoSend when it made none
    committed,       \* campaign sends the transport accepted
    sentSinceReset,  \* per account: sends the transport accepted since the last reset
    nReplies,        \* manual replies so far
    nLeadEvents,     \* bounce / unsubscribe events so far
    nStatusChanges,  \* campaign status changes so far
    leadUserId,      \* Lead.userId
    campaignUserId,  \* Campaign.userId
    leadIds,         \* Campaign.leadIds
    emailAccountIds, \* Campaign.emailAccountIds
    leadUpdates,     \* lead updates written by deferred campaign sends so far
    syncStatus,      \* InboxSync.syncStatus
    lastUid,         \* InboxSync.lastUid: the sync cursor
    emailsProcessed, \* InboxSync.emailsProcessed
    mailbox,         \* per account: the highest sequence id in the mailbox
    classified,      \* per account and sequence id: how often the message was classified
    syncRuns,        \* the syncInbox calls in progress
    nSyncs,          \* syncInbox calls admitted so far
    syncCall,        \* the syncInbox request of the latest step of the synchronizer,
                     \* NoSync when it made none
    nArrivals,       \* mails that arrived so far
    cronQueue,       \* the accounts the running sync trigger has still to visit
    cronWait,        \* the run the sync trigger awaits (0: none)
    cronVisited,     \* the accounts the latest sync trigger has called syncInbox for
    text,            \* replaceVariables: the template handed in
    fields,          \* replaceVariables: the attributes of the lead handed in
    rendered         \* replaceVariables: its result (NotRendered before the call)

vars == <<userId, isActive, dailyLimit, emailsSentToday, lastResetDate, leadStatus,
          lastContactedAt, campaign, passes, timers, warmupPasses, warmupTimers,
          warmupEmails, today, sendCall, committed, sentSinceReset, nReplies,
          nLeadEvents, nStatusChanges, leadUserId, campaignUserId, leadIds,
          emailAccountIds, leadUpdates, syncStatus, lastUid, emailsProcessed,
          mailbox, classified, syncRuns, nSyncs, syncCall, nArrivals, cronQueue,
          cronWait, cronVisited, text, fields, rendered>>

acctCfg == <<userId, isActive, dailyLimit>>
acctVars == <<emailsSentToday, sentSinceReset>>
leadVars == <<leadStatus, lastContactedAt, leadUpdates>>
warmupVars == <<warmupPasses, warmupTimers, warmupEmails>>
envVars == <<nReplies, nLeadEvents, nStatusChanges>>
ownerCfg == <<leadUserId, campaignUserId, leadIds, emailAccountIds>>
syncVars == <<syncStatus, lastUid, emailsProcessed, mailbox, classified, syncRuns,
              nSyncs, syncCall, nArrivals, cronQueue, cronWait, cronVisited>>
renderVars == <<text, fields, rendered>>
\* what the sending engine never writes
otherVars == <<ownerCfg, syncVars, renderVars>>
\* what the sending engine writes
engineVars == <<acctVars, lastResetDate, leadVars, campaign, passes, timers, warmupVars,
                today, sendCall, committed, envVars>>

(* ------------------------------ helpers -------------------------------- *)
NoSend == [type |-> "none", account |-> 0, lead |-> 0, invoked |-> FALSE, success |-> FALSE]

\* the ids of S in ascending order: the order find() returns documents in
IdSeq(S, n) == LET Keep(x) == x \in S IN SelectSeq([i \in 1..n |-> i], Keep)

(* ------------------------- the quota tracker --------------------------- *)
TryReserveOffByOne(sent, limit) == sent <= limit

\* tryReserve: capacity is left on the persisted counter
TryReserve(sent, limit) == sent < limit

SendEmailWarmupExempt(type, account, lead, transportOk) ==
    LET granted == type = "warmup"
                   \/ TryReserve(emailsSentToday[account], dailyLimit[account])
        success == granted /\ transportOk
    IN  /\ sendCall' = [type |-> type, account |-> account, lead |-> lead,
                        invoked |-> granted, success |-> success]
        /\ emailsSentToday' = IF success
                                THEN [emailsSentToday EXCEPT ![account] = @ + 1]
                                ELSE emailsSentToday
        /\ sentSinceReset' = IF success
                               THEN [sentSinceReset EXCEPT ![account] = @ + 1]
                               ELSE sentSinceReset

\* sendEmail(account, emailData): reserve on the persisted counter, hand the mail
\* to the transport, commit the reservation on success and release it on failure.
\* transportOk is the transport's answer, should it be asked.
SendEmail(type, account, lead, transportOk) ==
    LET granted == TryReserve(emailsSentToday[account], dailyLimit[account])
        success == granted /\ transportOk
    IN  /\ sendCall' = [type |-> type, account |-> account, lead |-> lead,
                        invoked |-> granted, success |-> success]
        /\ emailsSentToday' = IF success
                                THEN [emailsSentToday EXCEPT ![account] = @ + 1]
                                ELSE emailsSentToday
        /\ sentSinceReset' = IF success
                               THEN [sentSinceReset EXCEPT ![account] = @ + 1]
                               ELSE sentSinceReset

(* ------------------------- campaign scheduler -------------------------- *)
EligibleLeadStatusBouncedKept(s) == s # "unsubscribed"

\* Lead.find filter: status not in ['unsubscribed', 'bounced']
EligibleLeadStatus(s) == s \notin {"unsubscribed", "bounced"}

\* the daily-limit check of the loop, on the account document the pass loaded
AtDailyLimit(sent, limit) == sent >= limit

\* Math.floor(Math.random() * baseDelay * 0.5), sampled at both ends of its range
RandomDelays(randomizeDelay, baseDelay) ==
    IF randomizeDelay THEN {0, (baseDelay \div 2) - 1} ELSE {0}

TotalDelayBurst(baseDelay, randomDelay, sentInPass) == baseDelay + randomDelay

TotalDelay(baseDelay, randomDelay, sentInPass) ==
    baseDelay + randomDelay + (sentInPass * baseDelay)

AccountAtShifted(emailAccounts, accountIndex) ==
    emailAccounts[((accountIndex + 1) % Len(emailAccounts)) + 1]

\* emailAccounts[accountIndex % emailAccounts.length]
AccountAt(emailAccounts, accountIndex) ==
    emailAccounts[(accountIndex % Len(emailAccounts)) + 1]

\* the for-loop over the loaded leads: i is the position in leads, accountIndex
\* and sentInPass are the loop's two counters (the latter is the local variable
\* the source calls emailsSentToday); the result is the list of scheduled sends
RECURSIVE ScheduleLoop(_, _, _, _, _, _, _, _)
ScheduleLoop(leads, i, emailAccounts, loadedSent, firstStep, baseDelay, rnd, ctr) ==
    IF i > Len(leads) THEN <<>>
    ELSE
      LET lead == leads[i]
          account == AccountAt(emailAccounts, ctr.accountIndex)
      IN  IF AtDailyLimit(loadedSent[account], dailyLimit[account])
            THEN ScheduleLoop(leads, i + 1, emailAccounts, loadedSent, firstStep,
                              baseDelay, rnd,
                              [ctr EXCEPT !.accountIndex = @ + 1])
          ELSE IF ~firstStep
            THEN ScheduleLoop(leads, i + 1, emailAccounts, loadedSent, firstStep,
                              baseDelay, rnd, ctr)
          ELSE <<[lead |-> lead, account |-> account,
                  totalDelay |-> TotalDelay(baseDelay, rnd[lead], ctr.sentInPass)]>>
               \o ScheduleLoop(leads, i + 1, emailAccounts, loadedSent, firstStep,
                               baseDelay, rnd,
                               [accountIndex |-> ctr.accountIndex + 1,
                                sentInPass |-> ctr.sentInPass + 1])

PassRunsAnyStatus(status, emailAccounts) == Len(emailAccounts) > 0

\* the pass goes past its two early returns: the campaign is active and an active
\* account was found
PassRuns(status, emailAccounts) == status = "active" /\ Len(emailAccounts) > 0

\* scheduleCampaignEmails(campaign).  The campaign document is the one the caller
\* loaded: its status and counter are the persisted ones at the call, firstStep
\* (the sequence has an active step 1) and randomizeDelay are fields of it; rnd
\* holds the values Math.random() yields.  Between the two find() calls and the loop
\* nothing of the pass is written, so the pass is one step.
CampaignPass(firstStep, randomizeDelay, rnd) ==
    /\ Len(passes) < MaxPasses
    /\ LET baseDelay == DelayBetweenEmails * 1000
           leads == IdSeq({l \in leadIds : EligibleLeadStatus(leadStatus[l])}, NumLeads)
           emailAccounts == IdSeq({a \in emailAccountIds : isActive[a]}, NumAccounts)
           ran == PassRuns(campaign.status, emailAccounts)
           sends == IF ran
                      THEN ScheduleLoop(leads, 1, emailAccounts, emailsSentToday,
                                        firstStep, baseDelay, rnd,
                                        [accountIndex |-> 0, sentInPass |-> 0])
                      ELSE <<>>
           p == Len(passes) + 1
       IN  /\ rnd \in [Leads -> RandomDelays(randomizeDelay, baseDelay)]
           /\ passes' = Append(passes,
                  [day |-> today,
                   status |-> campaign.status,
                   emailsSent |-> campaign.emailsSent,
                   firstStep |-> firstStep,
                   randomizeDelay |-> randomizeDelay,
                   leads |-> IF campaign.status = "active" THEN leads ELSE <<>>,
                   leadStatus |-> leadStatus,
                   emailAccounts |-> IF campaign.status = "active"
                                       THEN emailAccounts ELSE <<>>,
                   loadedSent |-> emailsSentToday,
                   sends |-> sends])
           /\ timers' = timers \cup
                  {[pass |-> p, lead |-> sends[k].lead, account |-> sends[k].account,
                    totalDelay |-> sends[k].totalDelay,
                    loadedStatus |-> leadStatus[sends[k].lead],
                    pc |-> "timer"] : k \in 1..Len(sends)}
    /\ sendCall' = NoSend
    /\ UNCHANGED <<acctCfg, otherVars, acctVars, lastResetDate, leadVars, campaign, warmupVars,
                   today, committed, envVars>>

\* a timer of a pass is due once every timer of the pass with a smaller delay fired
Due(t) == /\ t.pc = "timer"
          /\ \A u \in timers : (u.pass = t.pass /\ u.pc = "timer")
                                  => u.totalDelay >= t.totalDelay

FireCampaignSendRetry(t, transportOk) ==
    /\ t \in timers
    /\ Due(t)
    /\ SendEmail("campaign", t.account, t.lead, transportOk)
    /\ timers' = IF sendCall'.success
                    THEN (timers \ {t}) \cup {[t EXCEPT !.pc = "leadSave"]}
                    ELSE IF sendCall'.invoked THEN timers ELSE timers \ {t}
    /\ committed' = IF sendCall'.success THEN committed + 1 ELSE committed
    /\ UNCHANGED <<acctCfg, otherVars, lastResetDate, leadVars, campaign, passes,
                   warmupVars, today, envVars>>

\* the setTimeout callback up to the answer of sendEmail
FireCampaignSend(t, transportOk) ==
    /\ t \in timers
    /\ Due(t)
    /\ SendEmail("campaign", t.account, t.lead, transportOk)
    /\ timers' = IF sendCall'.success
                    THEN (timers \ {t}) \cup {[t EXCEPT !.pc = "leadSave"]}
                    ELSE timers \ {t}
    /\ committed' = IF sendCall'.success THEN committed + 1 ELSE committed
    /\ UNCHANGED <<acctCfg, otherVars, lastResetDate, leadVars, campaign, passes, warmupVars,
                   today, envVars>>

\* lead.status = 'contacted'; lead.lastContactedAt = new Date(); await lead.save():
\* save() writes the paths that changed on the loaded document
LeadSave(t) ==
    /\ t \in timers
    /\ t.pc = "leadSave"
    /\ leadStatus' = IF t.loadedStatus # "contacted"
                       THEN [leadStatus EXCEPT ![t.lead] = "contacted"]
                       ELSE leadStatus
    /\ lastContactedAt' = [lastContactedAt EXCEPT ![t.lead] = today]
    /\ leadUpdates' = leadUpdates + 1
    /\ timers' = (timers \ {t}) \cup {[t EXCEPT !.pc = "campaignSave"]}
    /\ sendCall' = NoSend
    /\ UNCHANGED <<acctCfg, otherVars, acctVars, lastResetDate, campaign, passes, warmupVars,
                   today, committed, envVars>>

\* lead.save() throws: the catch of the callback logs it, the campaign is not
\* updated
LeadSaveFails(t) ==
    /\ t \in timers
    /\ t.pc = "leadSave"
    /\ timers' = timers \ {t}
    /\ sendCall' = NoSend
    /\ UNCHANGED <<acctCfg, otherVars, acctVars, lastResetDate, leadVars, campaign,
                   passes, warmupVars, today, committed, envVars>>

IncrementEmailsSentTwice(n) == n + 2

\* campaign.stats.emailsSent += 1 on the pass's campaign document
IncrementEmailsSent(n) == n + 1

\* campaign.stats.emailsSent += 1; await campaign.save(): the counter of the pass's
\* document is raised and save() writes that value
CampaignSave(t) ==
    /\ t \in timers
    /\ t.pc = "campaignSave"
    /\ LET n == IncrementEmailsSent(passes[t.pass].emailsSent)
       IN  /\ passes' = [passes EXCEPT ![t.pass].emailsSent = n]
           /\ campaign' = [campaign EXCEPT !.emailsSent = n]
    /\ timers' = timers \ {t}
    /\ sendCall' = NoSend
    /\ UNCHANGED <<acctCfg, otherVars, acctVars, lastResetDate, leadVars, warmupVars,
                   today, committed, envVars>>

\* campaign.save() throws after campaign.stats.emailsSent += 1: the pass's document
\* keeps the raised counter, the database keeps its own
CampaignSaveFails(t) ==
    /\ t \in timers
    /\ t.pc = "campaignSave"
    /\ passes' = [passes EXCEPT ![t.pass].emailsSent = IncrementEmailsSent(@)]
    /\ timers' = timers \ {t}
    /\ sendCall' = NoSend
    /\ UNCHANGED <<acctCfg, otherVars, acctVars, lastResetDate, leadVars, campaign,
                   warmupVars, today, committed, envVars>>

(* -------------------------- warmup scheduler --------------------------- *)
EmailsPerAccountFloor(dailyWarmupEmails, n) == dailyWarmupEmails \div n

\* Math.ceil(dailyWarmupEmails / otherAccounts.length)
EmailsPerAccount(dailyWarmupEmails, n) == (dailyWarmupEmails + n - 1) \div n

\* otherAccounts[i % otherAccounts.length], i counted from 0
TargetAccount(otherAccounts, i) == otherAccounts[(i % Len(otherAccounts)) + 1]

OtherAccountsSelfIncluded(account) ==
    IdSeq({b \in Accounts : userId[b] = userId[account] /\ isActive[b]}, NumAccounts)

\* EmailAccount.find({userId: account.userId, _id: {$ne: account._id}, isActive: true})
OtherAccounts(account) ==
    IdSeq({b \in Accounts : userId[b] = userId[account] /\ b # account /\ isActive[b]},
          NumAccounts)

\* scheduleWarmupEmails(account): enabled and dailyWarmupEmails are the
\* warmupSettings of the account document handed in.  The delay of each timer is
\* drawn independently (1 to 6 minutes), so the timers of a pass fire in any order
\* and the delay is not kept.
WarmupPass(account, enabled, dailyWarmupEmails) ==
    /\ Len(warmupPasses) < MaxWarmupPasses
    /\ LET otherAccounts == OtherAccounts(account)
           ran == enabled /\ Len(otherAccounts) > 0
           emailsPerAccount == IF ran
                                 THEN EmailsPerAccount(dailyWarmupEmails, Len(otherAccounts))
                                 ELSE 0
           p == Len(warmupPasses) + 1
       IN  /\ warmupPasses' = Append(warmupPasses,
                  [day |-> today, account |-> account, enabled |-> enabled,
                   loadedSent |-> emailsSentToday[account],
                   dailyWarmupEmails |-> dailyWarmupEmails,
                   otherAccounts |-> IF enabled THEN otherAccounts ELSE <<>>,
                   sends |-> [i \in 1..emailsPerAccount |->
                                 TargetAccount(otherAccounts, i - 1)]])
           /\ warmupTimers' = warmupTimers \cup
                  {[pass |-> p, i |-> i, from |-> account,
                    to |-> TargetAccount(otherAccounts, i),
                    pc |-> "timer"] : i \in 0..(emailsPerAccount - 1)}
    /\ sendCall' = NoSend
    /\ UNCHANGED <<acctCfg, otherVars, acctVars, lastResetDate, leadVars, campaign, passes,
                   timers, warmupEmails, today, committed, envVars>>

FireWarmupSendAlwaysRecords(w, transportOk) ==
    /\ w \in warmupTimers
    /\ w.pc = "timer"
    /\ SendEmail("warmup", w.from, 0, transportOk)
    /\ warmupTimers' = (warmupTimers \ {w}) \cup {[w EXCEPT !.pc = "recordSave"]}
    /\ UNCHANGED <<acctCfg, otherVars, lastResetDate, leadVars, campaign, passes, timers,
                   warmupPasses, warmupEmails, today, committed, envVars>>

\* the warmup setTimeout callback up to the answer of sendEmail
FireWarmupSend(w, transportOk) ==
    /\ w \in warmupTimers
    /\ w.pc = "timer"
    /\ SendEmail("warmup", w.from, 0, transportOk)
    /\ warmupTimers' = IF sendCall'.success
                          THEN (warmupTimers \ {w}) \cup {[w EXCEPT !.pc = "recordSave"]}
                          ELSE warmupTimers \ {w}
    /\ UNCHANGED <<acctCfg, otherVars, lastResetDate, leadVars, campaign, passes, timers,
                   warmupPasses, warmupEmails, today, committed, envVars>>

\* new WarmupEmail({... status: 'sent'}); await warmupEmail.save()
WarmupRecordSave(w) ==
    /\ w \in warmupTimers
    /\ w.pc = "recordSave"
    /\ warmupEmails' = warmupEmails \cup
           {[pass |-> w.pass, i |-> w.i, userId |-> userId[w.from],
             fromAccountId |-> w.from, toAccountId |-> w.to, status |-> "sent"]}
    /\ warmupTimers' = warmupTimers \ {w}
    /\ sendCall' = NoSend
    /\ UNCHANGED <<acctCfg, otherVars, acctVars, lastResetDate, leadVars, campaign, passes,
                   timers, warmupPasses, today, committed, envVars>>

\* warmupEmail.save() throws: the catch of the callback logs it
WarmupRecordSaveFails(w) ==
    /\ w \in warmupTimers
    /\ w.pc = "recordSave"
    /\ warmupTimers' = warmupTimers \ {w}
    /\ sendCall' = NoSend
    /\ UNCHANGED <<acctCfg, otherVars, acctVars, lastResetDate, leadVars, campaign,
                   passes, timers, warmupPasses, warmupEmails, today, committed,
                   envVars>>

(* ----------------------------- manual reply ---------------------------- *)
\* router.post('/reply'): the account is looked up by id and owner, then sendEmail
ReplySend(account, transportOk) ==
    /\ nReplies < MaxReplies
    /\ nReplies' = nReplies + 1
    /\ SendEmail("reply", account, 0, transportOk)
    /\ UNCHANGED <<acctCfg, otherVars, lastResetDate, leadVars, campaign, passes, timers,
                   warmupVars, today, committed, nLeadEvents, nStatusChanges>>

(* ------------------------------ daily reset ---------------------------- *)
ResetCountKept(sent) == sent

\* the value the midnight cron writes to emailsSentToday
ResetCount(sent) == 0

\* EmailAccount.updateMany({}, {emailsSentToday: 0, lastResetDate: new Date()})
DailyReset ==
    /\ today < MaxResets
    /\ today' = today + 1
    /\ emailsSentToday' = [a \in Accounts |-> ResetCount(emailsSentToday[a])]
    /\ lastResetDate' = [a \in Accounts |-> today + 1]
    /\ sentSinceReset' = [a \in Accounts |-> 0]
    /\ sendCall' = NoSend
    /\ UNCHANGED <<acctCfg, otherVars, leadVars, campaign, passes, timers, warmupVars,
                   committed, envVars>>

(* ------------------- changes made outside the scheduler ---------------- *)
\* the inbox synchronizer marks a lead bounced; the lead routes mark it unsubscribed
LeadEvent(lead, status) ==
    /\ nLeadEvents < MaxLeadEvents
    /\ status \in {"bounced", "unsubscribed"}
    /\ leadStatus[lead] \notin {"bounced", "unsubscribed"}
    /\ nLeadEvents' = nLeadEvents + 1
    /\ leadStatus' = [leadStatus EXCEPT ![lead] = status]
    /\ sendCall' = NoSend
    /\ UNCHANGED <<acctCfg, otherVars, acctVars, lastResetDate, lastContactedAt, leadUpdates,
                   campaign, passes, timers, warmupVars, today, committed, nReplies,
                   nStatusChanges>>

\* the campaign routes pause or stop an active campaign and start a draft or paused one
SetCampaignStatus(status) ==
    /\ nStatusChanges < MaxStatusChanges
    /\ \/ campaign.status = "active" /\ status \in {"paused", "stopped"}
       \/ campaign.status \in {"draft", "paused"} /\ status = "active"
    /\ nStatusChanges' = nStatusChanges + 1
    /\ campaign' = [campaign EXCEPT !.status = status]
    /\ sendCall' = NoSend
    /\ UNCHANGED <<acctCfg, otherVars, acctVars, lastResetDate, leadVars, passes, timers,
                   warmupVars, today, committed, nReplies, nLeadEvents>>

(* --------------------------- inbox synchronizer ------------------------ *)
NoSync == [account |-> 0, via |-> "none", admitted |-> FALSE]

SyncAdmittedAlways(status) == TRUE

\* the guard of syncInbox: a request for an account that is syncing is rejected
SyncAdmitted(status) == status # "syncing"

FetchSinceInclusive(cursor, top) ==
    LET from == IF cursor = 0 THEN 1 ELSE cursor
    IN  [i \in 1..(top - from + 1) |-> from + i - 1]

\* fetchSince(account, cursor): the sequence ids strictly newer than the cursor,
\* ascending
FetchSince(cursor, top) == [i \in 1..(top - cursor) |-> cursor + i]

CursorAfterWholeFetch(cursor, fetched, done) ==
    IF Len(fetched) = 0 THEN cursor ELSE fetched[Len(fetched)]

\* the cursor a run leaves: the id of the last message it classified
CursorAfter(cursor, fetched, done) == IF done = 0 THEN cursor ELSE fetched[done]

\* syncInbox(account) up to the fetch: the request is rejected while the account
\* is syncing; otherwise the status becomes syncing and the mail newer than the
\* cursor is fetched
SyncInbox(account, via) ==
    LET admitted == SyncAdmitted(syncStatus[account])
    IN  /\ admitted => nSyncs < MaxSyncs
        /\ syncCall' = [account |-> account, via |-> via, admitted |-> admitted]
        /\ syncStatus' = IF admitted
                           THEN [syncStatus EXCEPT ![account] = "syncing"]
                           ELSE syncStatus
        /\ syncRuns' = IF admitted
                         THEN syncRuns \cup
                                {[id |-> nSyncs + 1, account |-> account,
                                  cursor |-> lastUid[account],
                                  fetched |-> FetchSince(lastUid[account], mailbox[account]),
                                  done |-> 0]}
                         ELSE syncRuns
        /\ nSyncs' = IF admitted THEN nSyncs + 1 ELSE nSyncs
        /\ UNCHANGED <<lastUid, emailsProcessed, mailbox, classified, nArrivals>>

\* router.post('/sync/:accountId'): the account is looked up by id and owner, then
\* syncInbox
SyncManual(account) ==
    /\ SyncInbox(account, "manual")
    /\ UNCHANGED <<cronQueue, cronWait, cronVisited>>
    /\ UNCHANGED <<acctCfg, ownerCfg, renderVars, engineVars>>

\* the 5-minute trigger: EmailAccount.find({ isActive: true })
SyncCronFire ==
    /\ cronQueue = <<>>
    /\ cronWait = 0
    /\ nSyncs < MaxSyncs
    /\ cronQueue' = IdSeq({a \in Accounts : isActive[a]}, NumAccounts)
    /\ cronVisited' = {}
    /\ syncCall' = NoSync
    /\ UNCHANGED <<syncStatus, lastUid, emailsProcessed, mailbox, classified, syncRuns,
                   nSyncs, nArrivals, cronWait>>
    /\ UNCHANGED <<acctCfg, ownerCfg, renderVars, engineVars>>

\* the body of the trigger's loop: try { await syncInbox(account) } catch { log }
SyncCronNext ==
    /\ cronQueue # <<>>
    /\ cronWait = 0
    /\ SyncInbox(Head(cronQueue), "cron")
    /\ cronQueue' = Tail(cronQueue)
    /\ cronVisited' = cronVisited \cup {Head(cronQueue)}
    /\ cronWait' = IF syncCall'.admitted THEN nSyncs' ELSE 0
    /\ UNCHANGED <<acctCfg, ownerCfg, renderVars, engineVars>>

\* a run classifies the next message it fetched
SyncClassify(r) ==
    /\ r \in syncRuns
    /\ r.done < Len(r.fetched)
    /\ classified' = [classified EXCEPT ![r.account][r.fetched[r.done + 1]] = @ + 1]
    /\ syncRuns' = (syncRuns \ {r}) \cup {[r EXCEPT !.done = @ + 1]}
    /\ syncCall' = NoSync
    /\ UNCHANGED <<syncStatus, lastUid, emailsProcessed, mailbox, nSyncs, nArrivals,
                   cronQueue, cronWait, cronVisited>>
    /\ UNCHANGED <<acctCfg, ownerCfg, renderVars, engineVars>>

CronAfterErrorAbort(queue) == <<>>

\* the catch inside the trigger's loop: the error of one account is logged and
\* the loop goes on with the accounts that are left
CronAfterError(queue) == queue

\* a run ends: the cursor, the status and the counter of the run are written; the
\* trigger that awaited the run goes on
SyncEnd(r, status) ==
    /\ lastUid' = [lastUid EXCEPT ![r.account] = CursorAfter(r.cursor, r.fetched, r.done)]
    /\ syncStatus' = [syncStatus EXCEPT ![r.account] = status]
    /\ emailsProcessed' = [emailsProcessed EXCEPT ![r.account] = r.done]
    /\ syncRuns' = syncRuns \ {r}
    /\ cronWait' = IF cronWait = r.id THEN 0 ELSE cronWait
    /\ cronQueue' = IF cronWait = r.id /\ status = "error"
                       THEN CronAfterError(cronQueue) ELSE cronQueue
    /\ syncCall' = NoSync
    /\ UNCHANGED <<mailbox, classified, nSyncs, nArrivals, cronVisited>>
    /\ UNCHANGED <<acctCfg, ownerCfg, renderVars, engineVars>>

\* every fetched message was classified
SyncComplete(r) ==
    /\ r \in syncRuns
    /\ r.done = Len(r.fetched)
    /\ SyncEnd(r, "idle")

\* the transport fails before the run has classified all it fetched, or at the
\* fetch when nothing was to be fetched
SyncFail(r) ==
    /\ r \in syncRuns
    /\ r.done < Len(r.fetched) \/ Len(r.fetched) = 0
    /\ SyncEnd(r, "error")

\* a mail arrives in the mailbox of an account
MailArrives(account) ==
    /\ nArrivals < MaxArrivals
    /\ mailbox[account] < MaxMail
    /\ nArrivals' = nArrivals + 1
    /\ mailbox' = [mailbox EXCEPT ![account] = @ + 1]
    /\ syncCall' = NoSync
    /\ UNCHANGED <<syncStatus, lastUid, emailsProcessed, classified, syncRuns, nSyncs,
                   cronQueue, cronWait, cronVisited>>
    /\ UNCHANGED <<acctCfg, ownerCfg, renderVars, engineVars>>

(* --------------------------- template renderer ------------------------- *)
(* A string is a sequence of tokens.  A placeholder is the text one of the six *)
(* regular expressions matches; "$$" and "$&" are the two-character sequences  *)
(* String.prototype.replace reads as patterns in a replacement string; every   *)
(* other token is ordinary text.                                               *)
Placeholders == {"{{first_name}}", "{{last_name}}", "{{company}}", "{{job_title}}",
                 "{{website}}", "{{industry}}"}

\* the attribute of the lead each placeholder stands for
FieldOf == [ph \in Placeholders |->
              CASE ph = "{{first_name}}" -> "firstName"
                [] ph = "{{last_name}}" -> "lastName"
                [] ph = "{{company}}" -> "company"
                [] ph = "{{job_title}}" -> "jobTitle"
                [] ph = "{{website}}" -> "website"
                [] ph = "{{industry}}" -> "industry"]

\* the ordinary text of each attribute
Plain == [firstName |-> <<"F">>, lastName |-> <<"L">>, company |-> <<"C">>,
          jobTitle |-> <<"J">>, website |-> <<"W">>, industry |-> <<"I">>]

\* the values an attribute is drawn from: ordinary text, text with a "$$" or a
\* "$&" in it, and text that reads as a placeholder
Values(field) == {Plain[field], <<"$$">>, <<"$&">>, <<"{{industry}}">>}

\* the strings of at most n tokens over the set S
Strings(S, n) == UNION {[1..k -> S] : k \in 0..n}

\* an attribute the lead document does not have
Absent == <<"absent">>
NotRendered == <<"not rendered">>

\* what replace() writes for one token of the replacement string, the match being
\* matched: "$$" inserts a "$", "$&" inserts the matched text
ExpandToken(tok, matched) ==
    CASE tok = "$$" -> <<"$">>
      [] tok = "$&" -> <<matched>>
      [] OTHER -> <<tok>>

RECURSIVE Expand(_, _)
Expand(value, matched) ==
    IF value = <<>> THEN <<>>
    ELSE ExpandToken(Head(value), matched) \o Expand(Tail(value), matched)

\* str.replace(/\{\{name\}\}/g, value): every match is replaced
RECURSIVE ReplaceAll(_, _, _)
ReplaceAll(str, ph, value) ==
    IF str = <<>> THEN <<>>
    ELSE (IF Head(str) = ph THEN Expand(value, ph) ELSE <<Head(str)>>)
            \o ReplaceAll(Tail(str), ph, value)

\* lead.company || ''
OrEmpty(value) == IF value = Absent THEN <<>> ELSE value

\* replaceVariables(text, lead): six replace() calls in a chain, each on the result
\* of the one before
ReplaceVariables(str, lead) ==
    LET s1 == ReplaceAll(str, "{{first_name}}", lead.firstName)
        s2 == ReplaceAll(s1, "{{last_name}}", lead.lastName)
        s3 == ReplaceAll(s2, "{{company}}", OrEmpty(lead.company))
        s4 == ReplaceAll(s3, "{{job_title}}", OrEmpty(lead.jobTitle))
        s5 == ReplaceAll(s4, "{{website}}", OrEmpty(lead.website))
    IN  ReplaceAll(s5, "{{industry}}", OrEmpty(lead.industry))

\* a call of replaceVariables on the template and the lead of the state
Render ==
    /\ rendered = NotRendered
    /\ rendered' = ReplaceVariables(text, fields)
    /\ UNCHANGED <<text, fields>>
    /\ UNCHANGED <<acctCfg, ownerCfg, syncVars, engineVars>>

(* --------------------------- the specification ------------------------- *)
\* every variable but the account documents, as after construction
Fresh ==
    /\ lastResetDate = [a \in Accounts |-> 0]
    /\ lastContactedAt = [l \in Leads |-> -1]
    /\ passes = <<>>
    /\ timers = {}
    /\ warmupPasses = <<>>
    /\ warmupTimers = {}
    /\ warmupEmails = {}
    /\ today = 0
    /\ sendCall = NoSend
    /\ committed = 0
    /\ nReplies = 0
    /\ nLeadEvents = 0
    /\ nStatusChanges = 0
    /\ leadUpdates = 0

\* no sync has run: the InboxSync documents as the schema creates them
FreshSync ==
    /\ syncStatus = [a \in Accounts |-> "idle"]
    /\ lastUid = [a \in Accounts |-> 0]
    /\ emailsProcessed = [a \in Accounts |-> 0]
    /\ classified = [a \in Accounts |-> [i \in 1..MaxMail |-> 0]]
    /\ syncRuns = {}
    /\ nSyncs = 0
    /\ syncCall = NoSync
    /\ nArrivals = 0
    /\ cronQueue = <<>>
    /\ cronWait = 0
    /\ cronVisited = {}

\* no mail in any mailbox
NoMail == mailbox = [a \in Accounts |-> 0]

\* no template was rendered
FreshRender ==
    /\ text = <<>>
    /\ fields = [firstName |-> <<"F">>, lastName |-> <<"L">>, company |-> Absent,
                 jobTitle |-> Absent, website |-> Absent, industry |-> Absent]
    /\ rendered = NotRendered

\* a campaign that lists every lead and every account of its owner
OwnedLists ==
    /\ campaignUserId = 1
    /\ leadUserId = [l \in Leads |-> 1]
    /\ leadIds = Leads
    /\ emailAccountIds = {a \in Accounts : userId[a] = 1}

\* active accounts of one owner and a last, inactive one of another owner
PresetAccounts ==
    /\ userId = [a \in Accounts |-> IF a = NumAccounts THEN 2 ELSE 1]
    /\ isActive = [a \in Accounts |-> a # NumAccounts]

\* new leads but the last, who unsubscribed
PresetLeads ==
    leadStatus = [l \in Leads |-> IF l = NumLeads THEN "unsubscribed" ELSE "new"]

NoRandomDelay == [l \in Leads |-> 0]

(* The sending engine: every path that calls sendEmail, and the midnight reset. *)
Init ==
    /\ PresetAccounts
    /\ dailyLimit \in [Accounts -> 1..MaxLimit]
    /\ \A a \in Accounts : ~isActive[a] => dailyLimit[a] = 1
    /\ emailsSentToday = [a \in Accounts |-> 0]
    /\ sentSinceReset = [a \in Accounts |-> 0]
    /\ PresetLeads
    /\ campaign = [status |-> "active", emailsSent |-> 0]
    /\ Fresh
    /\ OwnedLists
    /\ FreshSync
    /\ NoMail
    /\ FreshRender

Next ==
    \/ Len(passes) < MaxEnginePasses /\ CampaignPass(TRUE, FALSE, NoRandomDelay)
    \/ \E t \in timers, transportOk \in BOOLEAN : FireCampaignSend(t, transportOk)
    \/ \E t \in timers : LeadSave(t)
    \/ \E t \in timers : CampaignSave(t)
    \/ \E account \in Accounts, dailyWarmupEmails \in 1..MaxWarmupBurst :
          WarmupPass(account, TRUE, dailyWarmupEmails)
    \/ \E w \in warmupTimers, transportOk \in BOOLEAN : FireWarmupSend(w, transportOk)
    \/ \E w \in warmupTimers : WarmupRecordSave(w)
    \/ \E account \in Accounts, transportOk \in BOOLEAN : ReplySend(account, transportOk)
    \/ DailyReset

Spec == Init /\ [][Next]_vars

(* The campaign scheduler with the changes made to leads and to the campaign   *)
(* while its sends are deferred.                                               *)
InitCampaign ==
    /\ PresetAccounts
    /\ dailyLimit \in [Accounts -> 1..MaxLimit]
    /\ emailsSentToday \in [Accounts -> 0..MaxLimit]
    /\ \A a \in Accounts : emailsSentToday[a] <= dailyLimit[a]
    /\ \A a \in Accounts : ~isActive[a] => (dailyLimit[a] = 1 /\ emailsSentToday[a] = 0)
    /\ sentSinceReset = emailsSentToday
    /\ PresetLeads
    /\ campaign \in [status : {"draft", "active"}, emailsSent : {0}]
    /\ Fresh
    /\ OwnedLists
    /\ FreshSync
    /\ NoMail
    /\ FreshRender

NextCampaign ==
    \/ \E firstStep \in BOOLEAN : CampaignPass(firstStep, FALSE, NoRandomDelay)
    \/ \E t \in timers, transportOk \in BOOLEAN : FireCampaignSend(t, transportOk)
    \/ \E t \in timers : LeadSave(t)
    \/ \E t \in timers : CampaignSave(t)
    \/ \E lead \in Leads, status \in {"bounced", "unsubscribed"} : LeadEvent(lead, status)
    \/ \E status \in {"active", "paused", "stopped"} : SetCampaignStatus(status)

SpecCampaign == InitCampaign /\ [][NextCampaign]_vars

(* One campaign pass on its own, from any state of the accounts and the leads,  *)
(* with a transport that accepts every mail.                                   *)
InitPass ==
    /\ userId = [a \in Accounts |-> 1]
    /\ isActive \in [Accounts -> BOOLEAN]
    /\ dailyLimit \in {[a \in Accounts |-> n] : n \in 1..MaxLimit}
    /\ emailsSentToday \in [Accounts -> 0..MaxLimit]
    /\ \A a \in Accounts : emailsSentToday[a] <= dailyLimit[a]
    /\ \A a \in Accounts : ~isActive[a] => emailsSentToday[a] = 0
    /\ sentSinceReset = emailsSentToday
    /\ leadStatus \in [Leads -> {"new", "replied", "bounced", "unsubscribed"}]
    /\ campaign = [status |-> "active", emailsSent |-> 0]
    /\ Fresh
    /\ OwnedLists
    /\ FreshSync
    /\ NoMail
    /\ FreshRender

NextPass ==
    \/ /\ passes = <<>>
       /\ \E firstStep \in BOOLEAN : CampaignPass(firstStep, FALSE, NoRandomDelay)
    \/ \E t \in timers : FireCampaignSend(t, TRUE)
    \/ \E t \in timers : LeadSave(t)
    \/ \E t \in timers : CampaignSave(t)

SpecPass == InitPass /\ [][NextPass]_vars

(* One warmup pass on its own, from any ownership and activity of the accounts. *)
InitWarmup ==
    /\ userId \in {[a \in Accounts |-> IF a = NumAccounts THEN u ELSE 1] : u \in Users}
    /\ isActive \in [Accounts -> BOOLEAN]
    /\ dailyLimit = [a \in Accounts |-> MaxLimit]
    /\ emailsSentToday = [a \in Accounts |-> 0]
    /\ sentSinceReset = emailsSentToday
    /\ PresetLeads
    /\ campaign = [status |-> "draft", emailsSent |-> 0]
    /\ Fresh
    /\ OwnedLists
    /\ FreshSync
    /\ NoMail
    /\ FreshRender

NextWarmup ==
    \/ /\ warmupPasses = <<>>
       /\ \E account \in Accounts, enabled \in BOOLEAN,
             dailyWarmupEmails \in 1..MaxWarmupTarget :
                WarmupPass(account, enabled, dailyWarmupEmails)
    \/ \E w \in warmupTimers, transportOk \in BOOLEAN : FireWarmupSend(w, transportOk)
    \/ \E w \in warmupTimers : WarmupRecordSave(w)

SpecWarmup == InitWarmup /\ [][NextWarmup]_vars

(* The inbox synchronizer: the 5-minute trigger, the manual sync requests, the  *)
(* runs they start and the mail that arrives meanwhile.                        *)
InitSync ==
    /\ PresetAccounts
    /\ dailyLimit = [a \in Accounts |-> 1]
    /\ emailsSentToday = [a \in Accounts |-> 0]
    /\ sentSinceReset = emailsSentToday
    /\ PresetLeads
    /\ campaign = [status |-> "draft", emailsSent |-> 0]
    /\ Fresh
    /\ OwnedLists
    /\ FreshSync
    /\ mailbox \in {[a \in Accounts |-> IF a = 1 THEN n ELSE IF a = 2 THEN 1 ELSE 0] :
                       n \in 0..MaxMail}
    /\ FreshRender

NextSync ==
    \/ \E account \in Accounts : SyncManual(account)
    \/ SyncCronFire
    \/ SyncCronNext
    \/ \E r \in syncRuns : SyncClassify(r)
    \/ \E r \in syncRuns : SyncComplete(r)
    \/ \E r \in syncRuns : SyncFail(r)
    \/ \E account \in Accounts : MailArrives(account)

SpecSync == InitSync /\ [][NextSync]_vars

(* One campaign pass with and without randomized delays, and its deferred sends.*)
InitDelay ==
    /\ PresetAccounts
    /\ dailyLimit \in [Accounts -> 1..MaxLimit]
    /\ emailsSentToday \in [Accounts -> 0..MaxLimit]
    /\ \A a \in Accounts : emailsSentToday[a] <= dailyLimit[a]
    /\ \A a \in Accounts : ~isActive[a] => (dailyLimit[a] = 1 /\ emailsSentToday[a] = 0)
    /\ sentSinceReset = emailsSentToday
    /\ leadStatus \in [Leads -> {"new", "bounced"}]
    /\ campaign = [status |-> "active", emailsSent |-> 0]
    /\ Fresh
    /\ OwnedLists
    /\ FreshSync
    /\ NoMail
    /\ FreshRender

NextDelay ==
    \/ /\ passes = <<>>
       /\ \E randomizeDelay \in BOOLEAN :
             \E rnd \in [Leads -> RandomDelays(randomizeDelay, DelayBetweenEmails * 1000)] :
                CampaignPass(TRUE, randomizeDelay, rnd)
    \/ \E t \in timers, transportOk \in BOOLEAN : FireCampaignSend(t, transportOk)
    \/ \E t \in timers : LeadSave(t)
    \/ \E t \in timers : CampaignSave(t)

SpecDelay == InitDelay /\ [][NextDelay]_vars

(* The template renderer on its own: one call on any short template and lead.   *)
(* firstName and lastName are required by the schema, the other four attributes *)
(* may be absent.                                                              *)
InitRender ==
    /\ PresetAccounts
    /\ dailyLimit = [a \in Accounts |-> 1]
    /\ emailsSentToday = [a \in Accounts |-> 0]
    /\ sentSinceReset = emailsSentToday
    /\ PresetLeads
    /\ campaign = [status |-> "draft", emailsSent |-> 0]
    /\ Fresh
    /\ OwnedLists
    /\ FreshSync
    /\ NoMail
    /\ text \in Strings(Placeholders \cup {"a"}, MaxTextLen)
    /\ fields \in [firstName : Values("firstName"),
                    lastName : {Plain.lastName},
                    company : Values("company") \cup {Absent},
                    jobTitle : {Plain.jobTitle, Absent},
                    website : {Plain.website, Absent},
                    industry : {Plain.industry, Absent}]
    /\ rendered = NotRendered

NextRender == Render

SpecRender == InitRender /\ [][NextRender]_vars

(* Failures: one campaign pass, one warmup pass and the sync trigger, with a     *)
(* transport that may fail and saves that may throw.                           *)
InitFaults ==
    /\ PresetAccounts
    /\ dailyLimit = [a \in Accounts |-> MaxLimit]
    /\ emailsSentToday = [a \in Accounts |-> 0]
    /\ sentSinceReset = emailsSentToday
    /\ PresetLeads
    /\ campaign = [status |-> "active", emailsSent |-> 0]
    /\ Fresh
    /\ OwnedLists
    /\ FreshSync
    /\ mailbox = [a \in Accounts |-> 1]
    /\ FreshRender

NextFaults ==
    \/ passes = <<>> /\ CampaignPass(TRUE, FALSE, NoRandomDelay)
    \/ \E t \in timers, transportOk \in BOOLEAN : FireCampaignSend(t, transportOk)
    \/ \E t \in timers : LeadSave(t)
    \/ \E t \in timers : LeadSaveFails(t)
    \/ \E t \in timers : CampaignSave(t)
    \/ \E t \in timers : CampaignSaveFails(t)
    \/ \E dailyWarmupEmails \in 1..MaxWarmupBurst : WarmupPass(1, TRUE, dailyWarmupEmails)
    \/ \E w \in warmupTimers, transportOk \in BOOLEAN : FireWarmupSend(w, transportOk)
    \/ \E w \in warmupTimers : WarmupRecordSave(w)
    \/ \E w \in warmupTimers : WarmupRecordSaveFails(w)
    \/ SyncCronFire
    \/ SyncCronNext
    \/ \E r \in syncRuns : SyncClassify(r)
    \/ \E r \in syncRuns : SyncComplete(r)
    \/ \E r \in syncRuns : SyncFail(r)

SpecFaults == InitFaults /\ [][NextFaults]_vars

(* Campaign passes that overlap: a pass starts while sends of an earlier pass   *)
(* are deferred or between their two updates.                                  *)
InitOverlap ==
    /\ PresetAccounts
    /\ dailyLimit = [a \in Accounts |-> MaxLimit]
    /\ emailsSentToday = [a \in Accounts |-> 0]
    /\ sentSinceReset = emailsSentToday
    /\ PresetLeads
    /\ campaign = [status |-> "active", emailsSent |-> 0]
    /\ Fresh
    /\ OwnedLists
    /\ FreshSync
    /\ NoMail
    /\ FreshRender

NextOverlap ==
    \/ CampaignPass(TRUE, FALSE, NoRandomDelay)
    \/ \E t \in timers, transportOk \in BOOLEAN : FireCampaignSend(t, transportOk)
    \/ \E t \in timers : LeadSave(t)
    \/ \E t \in timers : CampaignSave(t)

SpecOverlap == InitOverlap /\ [][NextOverlap]_vars

(* Ownership: one campaign pass and one warmup pass over accounts and leads of  *)
(* two owners, the campaign listing any leads and any accounts by id.          *)
InitOwner ==
    /\ userId \in {[a \in Accounts |-> IF a = NumAccounts THEN u ELSE 1] : u \in Users}
    /\ isActive = [a \in Accounts |-> TRUE]
    /\ dailyLimit = [a \in Accounts |-> MaxLimit]
    /\ emailsSentToday = [a \in Accounts |-> 0]
    /\ sentSinceReset = emailsSentToday
    /\ leadStatus = [l \in Leads |-> "new"]
    /\ campaign = [status |-> "active", emailsSent |-> 0]
    /\ Fresh
    /\ campaignUserId = 1
    /\ leadUserId \in {[l \in Leads |-> IF l = NumLeads THEN u ELSE 1] : u \in Users}
    /\ leadIds \in SUBSET Leads
    /\ emailAccountIds \in SUBSET Accounts
    /\ FreshSync
    /\ NoMail
    /\ FreshRender

NextOwner ==
    \/ passes = <<>> /\ CampaignPass(TRUE, FALSE, NoRandomDelay)
    \/ \E t \in timers : FireCampaignSend(t, TRUE)
    \/ \E t \in timers : LeadSave(t)
    \/ \E t \in timers : CampaignSave(t)
    \/ \E account \in Accounts : WarmupPass(account, TRUE, 1)
    \/ \E w \in warmupTimers : FireWarmupSend(w, TRUE)
    \/ \E w \in warmupTimers : WarmupRecordSave(w)

SpecOwner == InitOwner /\ [][NextOwner]_vars

(* The gates of a campaign pass: passes of a campaign in any status, with any   *)
(* of its accounts active and with or without an active first step.            *)
InitGate ==
    /\ userId = [a \in Accounts |-> 1]
    /\ isActive \in [Accounts -> BOOLEAN]
    /\ dailyLimit = [a \in Accounts |-> MaxLimit]
    /\ emailsSentToday = [a \in Accounts |-> 0]
    /\ sentSinceReset = emailsSentToday
    /\ PresetLeads
    /\ campaign \in [status : CampaignStatuses, emailsSent : {0}]
    /\ Fresh
    /\ OwnedLists
    /\ FreshSync
    /\ NoMail
    /\ FreshRender

NextGate ==
    \/ \E firstStep \in BOOLEAN : CampaignPass(firstStep, FALSE, NoRandomDelay)
    \/ \E t \in timers, transportOk \in BOOLEAN : FireCampaignSend(t, transportOk)
    \/ \E t \in timers : LeadSave(t)
    \/ \E t \in timers : CampaignSave(t)
    \/ \E status \in {"active", "paused", "stopped"} : SetCampaignStatus(status)

SpecGate == InitGate /\ [][NextGate]_vars

(* Rotation: two passes over three eligible leads and two active accounts, from  *)
(* any counters of the accounts.                                               *)
InitRotation ==
    /\ PresetAccounts
    /\ dailyLimit = [a \in Accounts |-> MaxLimit]
    /\ emailsSentToday \in [Accounts -> 0..MaxLimit]
    /\ \A a \in Accounts : ~isActive[a] => emailsSentToday[a] = 0
    /\ sentSinceReset = emailsSentToday
    /\ leadStatus = [l \in Leads |-> "new"]
    /\ campaign = [status |-> "active", emailsSent |-> 0]
    /\ Fresh
    /\ OwnedLists
    /\ FreshSync
    /\ NoMail
    /\ FreshRender

NextRotation ==
    \/ \E firstStep \in BOOLEAN : CampaignPass(firstStep, FALSE, NoRandomDelay)
    \/ \E t \in timers, transportOk \in BOOLEAN : FireCampaignSend(t, transportOk)
    \/ \E t \in timers : LeadSave(t)
    \/ \E t \in timers : CampaignSave(t)

SpecRotation == InitRotation /\ [][NextRotation]_vars

(* ------------------------------- claims -------------------------------- *)
\* C1: in every state reached by any interleaving of campaign passes, warmup
\* passes, deferred sends, manual replies and daily resets, no account has sent
\* more today than its daily limit, and the latest send that found the account at
\* its limit was rejected without reaching the transport.
C1_DailyLimitHolds ==
    /\ \A a \in Accounts : emailsSentToday[a] <= dailyLimit[a]
    /\ (sendCall.type # "none" /\ ~sendCall.invoked) => ~sendCall.success

\* a send was rejected on an account that stands at its limit
C1_Witness ==
    /\ sendCall.type # "none"
    /\ ~sendCall.invoked
    /\ emailsSentToday[sendCall.account] = dailyLimit[sendCall.account]

C9_ResetKeepsCount ==
    /\ \A a \in Accounts : emailsSentToday[a] = sentSinceReset[a]
    /\ today > 0 => \A a \in Accounts : lastResetDate[a] = today

\* a send deferred by a pass before the reset committed after it, on an account
\* that had sent before the reset
C9_Witness ==
    /\ today > 0
    /\ sendCall.type = "campaign"
    /\ sendCall.success
    /\ Len(passes) = 1
    /\ passes[1].day < today
    /\ passes[1].loadedSent[sendCall.account] > 0
    /\ emailsSentToday[sendCall.account] = 1

\* the leads a pass scheduled a send for
Scheduled(p) == {passes[p].sends[k].lead : k \in 1..Len(passes[p].sends)}

\* the leads a pass loaded
Loaded(p) == {passes[p].leads[k] : k \in 1..Len(passes[p].leads)}

\* the accounts a pass loaded
Eligible(p) == {passes[p].emailAccounts[k] : k \in 1..Len(passes[p].emailAccounts)}

\* what account a has used up when pass p comes to lead l: what it had sent when
\* the pass loaded it, and the sends the pass scheduled on it for earlier leads
UsedBefore(p, a, l) ==
    passes[p].loadedSent[a]
       + Cardinality({k \in 1..Len(passes[p].sends) :
                         passes[p].sends[k].account = a /\ passes[p].sends[k].lead < l})

\* C3: in a pass of a campaign with an active first step, a loaded lead is left
\* without a send only if every eligible account is at its daily limit when the
\* pass comes to that lead (the pass moves on to the next account and retries
\* the lead).
C3_SkippedOnlyWhenAllFull ==
    \A p \in 1..Len(passes) :
       \A l \in Loaded(p) :
          (passes[p].firstStep /\ l \notin Scheduled(p))
             => \A a \in Eligible(p) : UsedBefore(p, a, l) >= dailyLimit[a]

\* C4: the transport is invoked for a campaign send only while the persisted
\* status of the campaign is active.
C4_SendOnlyWhileActive ==
    [][(sendCall'.type = "campaign" /\ sendCall'.invoked)
          => campaign.status = "active"]_vars

\* C5: the transport is never invoked for a campaign send to a lead whose
\* persisted status is bounced or unsubscribed.
C5_NoSendAfterBounce ==
    [][(sendCall'.type = "campaign" /\ sendCall'.invoked)
          => leadStatus[sendCall'.lead] \notin {"bounced", "unsubscribed"}]_vars

\* C6: a lead whose status is unsubscribed or bounced when a pass starts gets no
\* send scheduled by that pass, with or without an active first step.
C6_UnsubscribedNeverSelected ==
    \A p \in 1..Len(passes) :
       \A l \in Leads :
          passes[p].leadStatus[l] \in {"unsubscribed", "bounced"}
             => (l \notin Scheduled(p) /\ l \notin Loaded(p))

\* a pass scheduled sends while one lead was bounced and another unsubscribed
C6_Witness ==
    \E p \in 1..Len(passes) :
       /\ Scheduled(p) # {}
       /\ \E l \in Leads : passes[p].leadStatus[l] = "bounced"
       /\ \E l \in Leads : passes[p].leadStatus[l] = "unsubscribed"

\* C7: whenever no send is between the transport's answer and its campaign
\* update, the persisted stats.emailsSent equals the number of sends the
\* transport accepted for the campaign.
C7_CounterEqualsCommitted ==
    (\A t \in timers : t.pc = "timer") => campaign.emailsSent = committed

\* the leads the sends of the pass reached: they carry a contact stamp
Contacted == {l \in Leads : lastContactedAt[l] # -1}

\* C2: when a pass with an active first step and a single eligible account of
\* remaining capacity r loaded more than r leads, and the transport accepts every
\* mail, then once all its deferred sends are over exactly the first r loaded
\* leads were sent to and are contacted, every other lead has the status it had
\* before, and stats.emailsSent has grown by exactly r.
C2_SendsExactlyRemaining ==
    (/\ Len(passes) = 1
     /\ timers = {}
     /\ passes[1].firstStep
     /\ Len(passes[1].emailAccounts) = 1
     /\ Len(passes[1].leads) >
           dailyLimit[passes[1].emailAccounts[1]]
              - passes[1].loadedSent[passes[1].emailAccounts[1]])
    => LET a == passes[1].emailAccounts[1]
           r == dailyLimit[a] - passes[1].loadedSent[a]
       IN  /\ committed = r
           /\ Contacted = {passes[1].leads[k] : k \in 1..r}
           /\ \A l \in Contacted : leadStatus[l] = "contacted"
           /\ \A l \in Leads \ Contacted : leadStatus[l] = passes[1].leadStatus[l]
           /\ campaign.emailsSent = passes[1].emailsSent
           /\ campaign.emailsSent = r
           /\ emailsSentToday[a] = dailyLimit[a]

\* the scenario of the specification: limit 2, nothing sent, three new leads; two
\* were sent to and the third is still new
C2_Witness ==
    /\ Len(passes) = 1
    /\ timers = {}
    /\ passes[1].emailAccounts = <<1>>
    /\ dailyLimit[1] = 2
    /\ passes[1].loadedSent[1] = 0
    /\ passes[1].leads = <<1, 2, 3>>
    /\ \A l \in Leads : passes[1].leadStatus[l] = "new"
    /\ leadStatus = [l \in Leads |-> IF l = 3 THEN "new" ELSE "contacted"]
    /\ campaign.emailsSent = 2

\* the active accounts of the owner of account a, other than a
Peers(a) == {b \in Accounts : b # a /\ userId[b] = userId[a] /\ isActive[b]}

\* C10: a warmup pass for an enabled account with n >= 1 active peers and daily
\* target t schedules k sends, k the least number with t <= k * n, and its i-th
\* send (from 0) goes to peer number i mod n of the peers in ascending order.
C10_WarmupCount ==
    \A p \in 1..Len(warmupPasses) :
       LET w == warmupPasses[p]
           n == Cardinality(Peers(w.account))
           t == w.dailyWarmupEmails
           k == Len(w.sends)
       IN  (w.enabled /\ n >= 1)
              => /\ k * n >= t
                 /\ (k - 1) * n < t
                 /\ \A i \in 0..(k - 1) :
                       /\ w.sends[i + 1] \in Peers(w.account)
                       /\ Cardinality({b \in Peers(w.account) : b < w.sends[i + 1]})
                             = i % n

\* the scenario of the specification: target 5 and 2 peers give 3 sends, to the
\* first peer, the second and the first again
C10_Witness ==
    \E p \in 1..Len(warmupPasses) :
       /\ warmupPasses[p].enabled
       /\ warmupPasses[p].dailyWarmupEmails = 5
       /\ warmupPasses[p].account = 2
       /\ Peers(2) = {1, 3}
       /\ warmupPasses[p].sends = <<1, 3, 1>>

\* C11: a warmup pass for an account that has no other active account of its
\* owner returns with zero sends scheduled and writes nothing: no deferred send,
\* no warmup record, no change to any account, lead or campaign.
C11_NoPeersNoIntents ==
    [][(/\ Len(warmupPasses') = Len(warmupPasses) + 1
        /\ Peers(warmupPasses'[Len(warmupPasses')].account) = {})
          => (/\ warmupPasses'[Len(warmupPasses')].sends = <<>>
              /\ UNCHANGED <<warmupTimers, warmupEmails, acctCfg, acctVars,
                             lastResetDate, leadVars, campaign, passes, timers>>)]_vars

\* a warmup pass ran for an enabled account that is active, as the hourly trigger
\* selects it, and has no active peer, while its owner has an inactive account
C11_Witness ==
    \E p \in 1..Len(warmupPasses) :
       /\ warmupPasses[p].enabled
       /\ isActive[warmupPasses[p].account]
       /\ Peers(warmupPasses[p].account) = {}
       /\ \E b \in Accounts : b # warmupPasses[p].account
                                /\ userId[b] = userId[warmupPasses[p].account]
       /\ warmupPasses[p].sends = <<>>
       /\ warmupTimers = {}

\* the runs in progress for account a
RunsOf(a) == {r \in syncRuns : r.account = a}

\* run r of the state before the step is over in the state after it
Ended(r) == \A q \in syncRuns' : q.id # r.id

\* C12: at most one inbox sync runs for an account at any time, and a sync
\* requested by the trigger or by the manual endpoint while the account's status
\* is syncing is rejected: it starts no run, is not queued and writes nothing.
C12_OneSyncPerAccount ==
    [][/\ \A a \in Accounts : Cardinality({r \in syncRuns' : r.account = a}) <= 1
       /\ (syncCall'.via # "none" /\ syncStatus[syncCall'.account] = "syncing")
             => (/\ ~syncCall'.admitted
                 /\ cronQueue' = IF syncCall'.via = "cron"
                                    THEN Tail(cronQueue) ELSE cronQueue
                 /\ cronWait' = cronWait
                 /\ UNCHANGED <<syncStatus, lastUid, emailsProcessed, mailbox,
                                classified, syncRuns, nSyncs>>)]_vars

\* the trigger asked for a sync of an account whose manual sync was under way,
\* and was turned away
C12_Witness ==
    /\ syncCall.via = "cron"
    /\ ~syncCall.admitted
    /\ \E r \in RunsOf(syncCall.account) : r.done > 0 /\ r.done < Len(r.fetched)

\* C13: the sync cursor of an account never decreases; a sync that starts after
\* a completed one with no mail newer than the cursor fetches nothing, processes
\* 0 messages and leaves the cursor where it was; no message is ever classified
\* twice.
C13_CursorMonotoneIdempotent ==
    [][/\ \A a \in Accounts : lastUid'[a] >= lastUid[a]
       /\ \A a \in Accounts : \A i \in 1..MaxMail : classified'[a][i] <= 1
       /\ \A r \in syncRuns' :
             (/\ nSyncs' = nSyncs + 1
              /\ r.id = nSyncs'
              /\ syncStatus[r.account] = "idle"
              /\ mailbox[r.account] = lastUid[r.account])
                => r.fetched = <<>>
       /\ \A r \in syncRuns :
             (Ended(r) /\ r.fetched = <<>>)
                => (/\ emailsProcessed'[r.account] = 0
                    /\ lastUid'[r.account] = lastUid[r.account])]_vars

\* a first sync classified the five messages of the mailbox, a second one right
\* after it processed none and left the cursor at the fifth
C13_Witness ==
    /\ mailbox[1] = 5
    /\ lastUid[1] = 5
    /\ \A i \in 1..5 : classified[1][i] = 1
    /\ syncStatus[1] = "idle"
    /\ emailsProcessed[1] = 0
    /\ nArrivals = 0

\* C14: when the transport fails after a run classified k of the m messages it
\* fetched (k < m), the run ends with the cursor at the id of the k-th message
\* (where it was when k = 0), syncStatus = error and emailsProcessed = k; the next
\* sync resumes there, so that whenever no run is in progress for an account
\* each message up to its cursor was classified exactly once and none beyond.
C14_PartialProgressKept ==
    [][/\ \A r \in syncRuns :
             (Ended(r) /\ r.done < Len(r.fetched))
                => (/\ lastUid'[r.account]
                          = IF r.done = 0 THEN lastUid[r.account] ELSE r.fetched[r.done]
                    /\ syncStatus'[r.account] = "error"
                    /\ emailsProcessed'[r.account] = r.done)
       /\ \A a \in Accounts :
             (\A r \in syncRuns' : r.account # a)
                => \A i \in 1..MaxMail :
                      classified'[a][i] = IF i <= lastUid'[a] THEN 1 ELSE 0]_vars

\* the scenario of the specification: five messages fetched, the transport failed
\* after the third
C14_Witness ==
    /\ mailbox[1] = 5
    /\ lastUid[1] = 3
    /\ syncStatus[1] = "error"
    /\ emailsProcessed[1] = 3
    /\ classified[1] = [i \in 1..MaxMail |-> IF i <= 3 THEN 1 ELSE 0]
    /\ RunsOf(1) = {}

\* baseDelay of a pass, in milliseconds
BaseDelay == DelayBetweenEmails * 1000

\* C15: the k-th send a pass schedules (k from 0) has the delay
\* baseDelay * (1 + k) + jitter, jitter being 0 when randomizeDelay is off and at
\* least 0 and less than baseDelay / 2 when it is on; the sends are scheduled in
\* lead order, consecutive delays differ by more than baseDelay / 2, and the
\* deferred sends of the pass fire in lead order.
C15_DelaySchedule ==
    [][/\ \A p \in 1..Len(passes') :
             LET sends == passes'[p].sends
             IN  /\ \A k \in 1..Len(sends) :
                       LET jitter == sends[k].totalDelay - (BaseDelay * k)
                       IN  IF passes'[p].randomizeDelay
                             THEN jitter >= 0 /\ 2 * jitter < BaseDelay
                             ELSE jitter = 0
                 /\ \A k \in 1..(Len(sends) - 1) :
                       /\ sends[k].lead < sends[k + 1].lead
                       /\ 2 * (sends[k + 1].totalDelay - sends[k].totalDelay) > BaseDelay
       /\ \A t \in timers :
             (t.pc = "timer" /\ t \notin timers')
                => \A u \in timers :
                      (u.pass = t.pass /\ u.pc = "timer") => u.lead >= t.lead]_vars

\* a pass with randomized delays scheduled three sends, the first with the
\* largest jitter and the second with none, after skipping no lead, and all
\* three have fired
C15_Witness ==
    /\ Len(passes) = 1
    /\ passes[1].randomizeDelay
    /\ Len(passes[1].sends) = 3
    /\ passes[1].sends[1].totalDelay = BaseDelay + (BaseDelay \div 2) - 1
    /\ passes[1].sends[2].totalDelay = 2 * BaseDelay
    /\ timers = {}

\* the template with every placeholder replaced by the attribute it stands for,
\* and by the empty string when the lead has no such attribute
RECURSIVE ExactSubstitution(_, _)
ExactSubstitution(str, lead) ==
    IF str = <<>> THEN <<>>
    ELSE (IF Head(str) \in Placeholders
            THEN OrEmpty(lead[FieldOf[Head(str)]])
            ELSE <<Head(str)>>)
            \o ExactSubstitution(Tail(str), lead)

\* C16: the result of rendering a template for a lead is the template with every
\* occurrence of each of the six placeholders replaced by the lead's
\* corresponding attribute, and by the empty string when the attribute is absent.
C16_ExactSubstitution ==
    rendered # NotRendered => rendered = ExactSubstitution(text, fields)

\* C17: when the transport reports failure for a deferred campaign send, the
\* send is over (no deferred send of that pass for that lead is left to call
\* the transport again), and the lead's status and lastContactedAt, the
\* campaign's stats.emailsSent and every account's emailsSentToday are as before.
C17_FailedSendLeavesNoTrace ==
    [][\A t \in timers :
          (/\ t.pc = "timer"
           /\ sendCall'.type = "campaign"
           /\ sendCall'.lead = t.lead
           /\ sendCall'.account = t.account
           /\ t \notin timers' \/ timers' = timers
           /\ sendCall'.invoked
           /\ ~sendCall'.success)
          => (/\ \A u \in timers' : ~(u.pass = t.pass /\ u.lead = t.lead)
              /\ UNCHANGED <<leadStatus, lastContactedAt, campaign, emailsSentToday>>
              /\ \A p \in 1..Len(passes') : passes'[p].emailsSent = passes[p].emailsSent)]_vars

\* the transport failed for the first send of a pass: the lead is still new and
\* unstamped, both counters are at zero, and the next send of the pass is pending
C17_Witness ==
    /\ sendCall.type = "campaign"
    /\ sendCall.invoked
    /\ ~sendCall.success
    /\ leadStatus[sendCall.lead] = "new"
    /\ lastContactedAt[sendCall.lead] = -1
    /\ campaign.emailsSent = 0
    /\ emailsSentToday[sendCall.account] = 0
    /\ \A u \in timers : u.lead # sendCall.lead
    /\ \E u \in timers : u.pc = "timer"

\* C18: a deferred send that ends, by a transport failure or an exception or
\* otherwise, takes no other deferred send with it: every other campaign and
\* warmup send stays pending as it was, and a send that did not succeed uses up
\* no capacity of its account.  When the sync of one account ends in an error
\* while the trigger awaits it, the trigger goes on with the accounts still in
\* its queue and no other account's sync state is touched; a trigger that has
\* emptied its queue has called the sync of every active account.
C18_FailuresIsolated ==
    [][/\ \A u \in timers \ timers' : \A t \in timers \ {u} : t \in timers'
       /\ \A u \in warmupTimers \ warmupTimers' :
             \A w \in warmupTimers \ {u} : w \in warmupTimers'
       /\ (sendCall'.type # "none" /\ ~sendCall'.success)
             => emailsSentToday' = emailsSentToday
       /\ \A r \in syncRuns :
             (Ended(r) /\ cronWait = r.id /\ syncStatus'[r.account] = "error")
                => (/\ cronWait' = 0
                    /\ cronQueue' = cronQueue
                    /\ \A b \in Accounts \ {r.account} :
                          /\ syncStatus'[b] = syncStatus[b]
                          /\ lastUid'[b] = lastUid[b]
                          /\ {q \in syncRuns' : q.account = b} = RunsOf(b))
       /\ (cronQueue' = <<>> /\ cronVisited' # {})
             => cronVisited' = {a \in Accounts : isActive[a]}]_vars

\* the first campaign send of a pass failed and the second committed; one warmup
\* send of two failed and the other was recorded; the sync of account 1 ended in
\* an error and the trigger went on to sync account 2
C18_Witness ==
    /\ Len(passes) = 1
    /\ Len(passes[1].sends) = 2
    /\ timers = {}
    /\ leadStatus[1] = "new"
    /\ lastContactedAt[1] = -1
    /\ leadStatus[2] = "contacted"
    /\ campaign.emailsSent = 1
    /\ Len(warmupPasses) = 1
    /\ Len(warmupPasses[1].sends) = 2
    /\ warmupTimers = {}
    /\ Cardinality(warmupEmails) = 1
    /\ cronQueue = <<>>
    /\ cronVisited = {1, 2}
    /\ syncStatus[1] = "error"
    /\ syncStatus[2] = "idle"
    /\ lastUid[2] = 1
    /\ emailsProcessed[2] = 1

\* C19: when a committed campaign send writes its lead update, the lead's
\* persisted status is contacted and lastContactedAt is stamped; when it then
\* writes its campaign update, the persisted stats.emailsSent goes up by exactly
\* 1; the campaign update comes after the lead update of the same send; and in
\* every state stats.emailsSent is at most the number of lead updates written.
C19_LeadThenCounter ==
    [][/\ \A t \in timers :
             (t.pc = "leadSave" /\ t \notin timers')
                => (/\ leadStatus'[t.lead] = "contacted"
                    /\ lastContactedAt'[t.lead] = today)
       /\ \A t \in timers :
             (t.pc = "campaignSave" /\ t \notin timers')
                => campaign'.emailsSent = campaign.emailsSent + 1
       /\ \A t \in timers' : t.pc = "campaignSave" => lastContactedAt'[t.lead] # -1
       /\ campaign'.emailsSent <= leadUpdates']_vars

\* C20: every send a campaign pass schedules uses a sender account and a lead
\* owned by the campaign's owner, and every send a warmup pass schedules goes
\* from the pass's account to a different account of the same owner.
C20_SendsWithinOneOwner ==
    /\ \A p \in 1..Len(passes) :
          \A k \in 1..Len(passes[p].sends) :
             /\ userId[passes[p].sends[k].account] = campaignUserId
             /\ leadUserId[passes[p].sends[k].lead] = campaignUserId
    /\ \A p \in 1..Len(warmupPasses) :
          \A k \in 1..Len(warmupPasses[p].sends) :
             /\ warmupPasses[p].sends[k] # warmupPasses[p].account
             /\ userId[warmupPasses[p].sends[k]] = userId[warmupPasses[p].account]

\* C21: a second pass of the same active campaign sends no lead the step a pass
\* before it has sent that lead: the transport accepts no campaign send to a lead
\* that carries a contact stamp or whose accepted send has still to write its
\* updates.
C21_PassesIdempotent ==
    [][(sendCall'.type = "campaign" /\ sendCall'.success)
          => (/\ lastContactedAt[sendCall'.lead] = -1
              /\ \A u \in timers : u.lead = sendCall'.lead => u.pc = "timer")]_vars

\* C22: a campaign pass schedules a send only if the campaign's status is active,
\* at least one of its sender accounts is active and its sequence has an active
\* step 1; when any of the three fails the pass schedules nothing and changes no
\* lead, campaign or account state, the sends deferred before it included.
C22_PassGates ==
    [][Len(passes') = Len(passes) + 1
          => LET pass == passes'[Len(passes')]
                 gate == /\ campaign.status = "active"
                         /\ \E a \in emailAccountIds : isActive[a]
                         /\ pass.firstStep
             IN  /\ pass.sends # <<>> => gate
                 /\ ~gate => (/\ pass.sends = <<>>
                              /\ timers' = timers
                              /\ UNCHANGED <<leadVars, campaign, acctCfg, acctVars,
                                             lastResetDate, committed>>)]_vars

\* a first pass scheduled sends; the campaign was paused and a second pass, with
\* an active first step and active accounts, scheduled nothing and left the
\* deferred sends of the first pending
C22_Witness ==
    /\ Len(passes) = 2
    /\ passes[1].sends # <<>>
    /\ passes[2].status = "paused"
    /\ passes[2].firstStep
    /\ \E a \in emailAccountIds : isActive[a]
    /\ passes[2].sends = <<>>
    /\ \E t \in timers : t.pass = 1 /\ t.pc = "timer"
    /\ \A t \in timers : t.pass = 1

\* the account each lead was given by pass p, in the order of scheduling
Assigned(p) ==
    [k \in 1..Len(passes[p].sends) |->
        <<passes[p].sends[k].lead, passes[p].sends[k].account>>]

\* no account pass p loaded was at its daily limit
NoneAtLimit(p) ==
    \A a \in Eligible(p) : passes[p].loadedSent[a] < dailyLimit[a]

\* C23: rotation is local to a pass and deterministic.  Every pass starts at the
\* first eligible account: its first lead is scheduled on that account when the
\* account is below its limit, and on no other account.  Two passes that loaded
\* the same leads, accounts and counters give every lead the same account.  When
\* no loaded account is at its limit, the k-th lead (from 0) is scheduled on
\* account k mod n of the n eligible accounts.
C23_RotationLocalDeterministic ==
    /\ \A p \in 1..Len(passes) :
          LET pass == passes[p]
              n == Len(pass.emailAccounts)
          IN  (pass.firstStep /\ n > 0 /\ Len(pass.leads) > 0)
                 => /\ \A k \in 1..Len(pass.sends) :
                          pass.sends[k].lead = pass.leads[1]
                             => pass.sends[k].account = pass.emailAccounts[1]
                    /\ pass.loadedSent[pass.emailAccounts[1]]
                          < dailyLimit[pass.emailAccounts[1]]
                          => /\ pass.sends # <<>>
                             /\ pass.sends[1].lead = pass.leads[1]
                             /\ pass.sends[1].account = pass.emailAccounts[1]
                    /\ NoneAtLimit(p)
                          => /\ Len(pass.sends) = Len(pass.leads)
                             /\ \A k \in 0..(Len(pass.leads) - 1) :
                                   /\ pass.sends[k + 1].lead = pass.leads[k + 1]
                                   /\ pass.sends[k + 1].account
                                         = pass.emailAccounts[(k % n) + 1]
    /\ \A p, q \in 1..Len(passes) :
          (/\ passes[p].leads = passes[q].leads
           /\ passes[p].emailAccounts = passes[q].emailAccounts
           /\ \A a \in Eligible(p) : passes[p].loadedSent[a] = passes[q].loadedSent[a]
           /\ passes[p].firstStep = passes[q].firstStep)
             => Assigned(p) = Assigned(q)

\* two passes over three leads and two accounts below their limits: the first
\* ended its rotation on the second account, and the second pass gave the leads
\* the accounts the first had given them, starting at the first account again
C23_Witness ==
    /\ Len(passes) = 2
    /\ passes[1].leads = <<1, 2, 3>>
    /\ passes[1].emailAccounts = <<1, 2>>
    /\ NoneAtLimit(1)
    /\ NoneAtLimit(2)
    /\ Assigned(1) = <<<<1, 1>>, <<2, 2>>, <<3, 1>>>>
    /\ Assigned(2) = Assigned(1)
    /\ passes[2].loadedSent # passes[1].loadedSent

\* the warmup records of pass p
RecordsOf(p) == {e \in warmupEmails : e.pass = p}

\* C24: a WarmupEmail record is created only by a deferred warmup send whose
\* sendEmail call reported success, with status sent, the pass's account as
\* fromAccountId and another account as toAccountId; a warmup send that did not
\* succeed creates no record; a pass has at most as many records as it scheduled
\* sends, and an account at most as many as the transport accepted from it.
C24_RecordOnlyAfterSuccess ==
    [][/\ \A e \in warmupEmails' \ warmupEmails :
             /\ e.status = "sent"
             /\ e.fromAccountId = warmupPasses[e.pass].account
             /\ e.toAccountId # e.fromAccountId
             /\ e.toAccountId = warmupPasses[e.pass].sends[e.i + 1]
             /\ \E w \in warmupTimers \ warmupTimers' :
                   w.pass = e.pass /\ w.i = e.i /\ w.pc = "recordSave"
       /\ \A w \in warmupTimers' \ warmupTimers :
             w.pc = "recordSave"
                => (/\ sendCall'.type = "warmup"
                    /\ sendCall'.success
                    /\ sendCall'.account = w.from)
       /\ (sendCall'.type = "warmup" /\ ~sendCall'.success)
             => (/\ warmupEmails' = warmupEmails
                 /\ \A w \in warmupTimers' \ warmupTimers : w.pc # "recordSave")
       /\ \A p \in 1..Len(warmupPasses') :
             Cardinality({e \in warmupEmails' : e.pass = p}) <= Len(warmupPasses'[p].sends)
       /\ \A a \in Accounts :
             Cardinality({e \in warmupEmails' : e.fromAccountId = a})
                <= sentSinceReset'[a]]_vars

\* a pass scheduled three sends from an account below its limit: the transport
\* failed for two of them and accepted one, and the one record carries status
\* sent and the two accounts of its send
C24_Witness ==
    /\ Len(warmupPasses) = 1
    /\ Len(warmupPasses[1].sends) = 3
    /\ warmupTimers = {}
    /\ sentSinceReset[warmupPasses[1].account] = 1
    /\ Cardinality(RecordsOf(1)) = 1
    /\ \A e \in RecordsOf(1) : e.status = "sent" /\ e.toAccountId # e.fromAccountId

\* C25: no step of the scheduler takes a lead out of a terminal or more advanced
\* status: a lead whose persisted status is bounced, unsubscribed or replied is
\* not set back to contacted by the completion of a deferred campaign send, also
\* when it reached that status after the send was scheduled.
C25_NoStatusRegression ==
    [][\A l \in Leads :
          leadStatus[l] \in {"bounced", "unsubscribed", "replied"}
             => leadStatus'[l] # "contacted"]_vars

====
